---- MODULE Spec2Model ----
(***************************************************************************)
(* Model of the text-similarity pipeline of text_similarity_app:           *)
(*   utils/similarity.py : load_model, preprocess_text,                    *)
(*                         calculate_similarity,                           *)
(*                         get_similarity_interpretation,                  *)
(*                         get_similarity_color,                           *)
(*                         calculate_batch_similarity                      *)
(*                                                                         *)
(* Texts are sequences of one-character strings.  Scores are fixed-point   *)
(* numbers in thousandths (0.8 is 800).  The embedding model is a black    *)
(* box: a construction either yields a handle or raises, an encode call    *)
(* either yields a cosine score or raises.                                 *)
(***************************************************************************)
EXTENDS Integers, Sequences, FiniteSets, TLC

VARIABLES cache, lock, constructCount, successCount, call, probe,
          history, saved, ui, clock

\* the state of the sessions: st.session_state and what a script run shows
session == <<history, saved, ui, clock>>

vars == <<cache, lock, constructCount, successCount, call, probe, session>>

(***************************************************************************)
(* Bounds of the model.                                                    *)
(***************************************************************************)
MaxLen == 3          \* longest text given to the normalizer harness
MaxPairs == 2        \* longest batch
MaxLoads == 2        \* cap on the constructions counted per identifier
NumThreads == 2      \* concurrent script runs (sessions)

(***************************************************************************)
(* Characters and texts.                                                   *)
(***************************************************************************)
Upper == {"A"}
LowerCase == {"a"}
\* string.punctuation: the ASCII punctuation characters
AsciiPunctuation == {"!"}
\* a punctuation mark outside ASCII (U+00A1), not in string.punctuation
OtherPunctuation == {"u00A1"}
Whitespace == {" "}
Alphabet == Upper \cup LowerCase \cup AsciiPunctuation \cup OtherPunctuation \cup Whitespace

Rep(c, n) == [i \in 1..n |-> c]

TextsUpTo(n) == UNION {[1..k -> Alphabet] : k \in 0..n}

Min(S) == CHOOSE x \in S : \A y \in S : x <= y
Max(S) == CHOOSE x \in S : \A y \in S : x >= y

\* str.lower, character by character
lowerChar(c) == IF c = "A" THEN "a" ELSE c
lower(text) == [i \in 1..Len(text) |-> lowerChar(text[i])]

\* text.translate(str.maketrans('', '', string.punctuation))
translate(text) == SelectSeq(text, LAMBDA c : c \notin AsciiPunctuation)

\* str.strip
strip(text) ==
  LET keep == {i \in 1..Len(text) : text[i] \notin Whitespace}
  IN IF keep = {} THEN <<>> ELSE SubSeq(text, Min(keep), Max(keep))

\* preprocess_text with the trim applied before the punctuation removal
preprocess_text_TrimFirst(text, lowercase, remove_punctuation) ==
  LET t1 == IF lowercase THEN lower(text) ELSE text
      t2 == strip(t1)
  IN IF remove_punctuation THEN translate(t2) ELSE t2

preprocess_text(text, lowercase, remove_punctuation) ==
  LET t1 == IF lowercase THEN lower(text) ELSE text
      t2 == IF remove_punctuation THEN translate(t1) ELSE t1
  IN strip(t2)

(***************************************************************************)
(* Scores and the classifier.                                              *)
(***************************************************************************)
Scores == (0 - 1000)..1000

\* get_similarity_color with the first threshold compared by >=
get_similarity_color_Inclusive(score) ==
  IF score >= 800 THEN "#28a745"
  ELSE IF score > 600 THEN "#ffc107"
  ELSE IF score > 300 THEN "#17a2b8"
  ELSE "#dc3545"

get_similarity_interpretation(score) ==
  IF score > 800 THEN "Very Similar"
  ELSE IF score > 600 THEN "Moderately Similar"
  ELSE IF score > 300 THEN "Somewhat Similar"
  ELSE "Not Similar"

get_similarity_color(score) ==
  IF score > 800 THEN "#28a745"
  ELSE IF score > 600 THEN "#ffc107"
  ELSE IF score > 300 THEN "#17a2b8"
  ELSE "#dc3545"

(***************************************************************************)
(* Inputs of the pipeline.                                                 *)
(***************************************************************************)
\* the identifier the embedding backend resolves: the default model_name
KnownModels == {"all-MiniLM-L6-v2"}
ModelIds == KnownModels \cup {"no-such-model"}

\* preprocess_options: None, or a dict over the keyword names of preprocess_text
OptionKeys == {"lowercase", "remove_punctuation"}
NoOptions == [present |-> FALSE, kw |-> [k \in {} |-> FALSE]]
OptionDicts == UNION {[D -> BOOLEAN] : D \in SUBSET OptionKeys}
AllOptions == {NoOptions} \cup {[present |-> TRUE, kw |-> d] : d \in OptionDicts}

\* "if preprocess_options:" : None and the empty dict are both falsy
Truthy(o) == o.present /\ DOMAIN o.kw # {}
\* a dict given with ** : a missing keyword takes the default False
Kw(o, k) == IF k \in DOMAIN o.kw THEN o.kw[k] ELSE FALSE

Texts == {<<>>, <<" ">>, <<" ", "A", "!">>, <<"!">>}

PreviewLen == 100
Ellipsis == <<".", ".", ".">>
BatchPairs ==
  { <<<<"a">>, <<"a">>>>,
    <<<<>>, <<"a">>>>,
    <<<<"a">>, <<" ">>>>,
    <<Rep("a", PreviewLen + 1), Rep("a", PreviewLen)>> }
SeqsUpTo(S, n) == UNION {[1..k -> S] : k \in 0..n}

\* cosine scores an encode call may produce, and elapsed wall-clock readings
SampleScores == {0, 800, 1000}
ElapsedTimes == {0, 1}

TokenKeys == {"text1_tokens", "text2_tokens", "total_tokens", "max_seq_length"}
EmptyLabel == "Empty text detected"

(***************************************************************************)
(* State.                                                                  *)
(*   cache          identifiers whose handle st.cache_resource holds       *)
(*   lock           holder of the cache's compute lock, 0 when free        *)
(*   constructCount SentenceTransformer(model_name) invocations            *)
(*   successCount   invocations that returned a handle                     *)
(*   call[t]        the call thread t is running, with its locals          *)
(*   probe          input and output of a pure function under test         *)
(***************************************************************************)
Threads == 1..NumThreads

Idle ==
  [pc |-> "idle", kind |-> "none", model |-> "",
   arg1 |-> <<>>, arg2 |-> <<>>, options |-> NoOptions,
   text1 |-> <<>>, text2 |-> <<>>, normalized |-> 0,
   pairs |-> <<>>, i |-> 0, results |-> <<>>,
   result |-> <<>>, error |-> "none",
   tokenized |-> <<>>, encoded |-> <<>>]

NoProbe == [fn |-> "none"]

\* a script run of a session: nothing shown yet
NoRun == [stage |-> "idle", text1 |-> <<>>, text2 |-> <<>>, report |-> <<>>]

(***************************************************************************)
(*   history[t]  st.session_state.comparison_history of session t          *)
(*   saved[t]    every comparison saved since the last clear, newest first *)
(*   ui[t]       what the current script run of session t has shown        *)
(*   clock       datetime.now(), in seconds                                *)
(***************************************************************************)
SessionInit ==
  /\ history = [t \in Threads |-> <<>>]
  /\ saved = [t \in Threads |-> <<>>]
  /\ ui = [t \in Threads |-> NoRun]
  /\ clock = 0

Init ==
  /\ cache = {}
  /\ lock = 0
  /\ constructCount = [m \in ModelIds |-> 0]
  /\ successCount = [m \in ModelIds |-> 0]
  /\ call = [t \in Threads |-> Idle]
  /\ probe = NoProbe
  /\ SessionInit

Finished(t) == call[t].pc \in {"idle", "returned", "raised"}
Ready(t) == call[t].pc = "idle"
InFlight(m) == {u \in Threads : ~Finished(u) /\ call[u].model = m}
\* keeps constructCount within MaxLoads
CanRequest(m) ==
  m \in cache \/ constructCount[m] + Cardinality(InFlight(m)) < MaxLoads

AfterLoad(kind) == IF kind = "single" THEN "cs_tokenize" ELSE "cb_loop"

(***************************************************************************)
(* load_model, under @st.cache_resource: a hit returns the cached handle;  *)
(* a miss takes the compute lock, looks again, and only then constructs.   *)
(* A construction that raises stores nothing.                              *)
(***************************************************************************)
LockAvailable_NoLock(t) == TRUE

LockAvailable(t) == lock = 0

LoadLookup(t) ==
  /\ call[t].pc = "lm_lookup"
  /\ call' = [call EXCEPT ![t].pc =
                IF call[t].model \in cache THEN AfterLoad(call[t].kind) ELSE "lm_wait"]
  /\ UNCHANGED <<cache, lock, constructCount, successCount, probe, session>>

LoadAcquire(t) ==
  /\ call[t].pc = "lm_wait"
  /\ LockAvailable(t)
  /\ lock' = t
  /\ call' = [call EXCEPT ![t].pc = "lm_locked"]
  /\ UNCHANGED <<cache, constructCount, successCount, probe, session>>

LoadRecheck(t) ==
  /\ call[t].pc = "lm_locked"
  /\ IF call[t].model \in cache
       THEN /\ lock' = 0
            /\ call' = [call EXCEPT ![t].pc = AfterLoad(call[t].kind)]
       ELSE /\ lock' = lock
            /\ call' = [call EXCEPT ![t].pc = "lm_construct"]
  /\ UNCHANGED <<cache, constructCount, successCount, probe, session>>

LoadConstruct(t) ==
  LET m == call[t].model IN
  /\ call[t].pc = "lm_construct"
  /\ constructCount' = [constructCount EXCEPT ![m] = @ + 1]
  /\ lock' = 0
  /\ \/ /\ m \in KnownModels
        /\ cache' = cache \cup {m}
        /\ successCount' = [successCount EXCEPT ![m] = @ + 1]
        /\ call' = [call EXCEPT ![t].pc = AfterLoad(call[t].kind)]
     \/ /\ cache' = cache
        /\ successCount' = successCount
        /\ call' = [call EXCEPT ![t].pc = "raised", ![t].error = "ModelLoadError"]
  /\ UNCHANGED <<probe, session>>

(***************************************************************************)
(* calculate_similarity                                                    *)
(***************************************************************************)
\* calculate_similarity(a, b, m, o) is entered
EnterSingle(t, a, b, o, m) ==
  /\ Ready(t)
  /\ CanRequest(m)
  /\ call' = [call EXCEPT ![t] =
       [Idle EXCEPT !.pc = "cs_check", !.kind = "single", !.model = m,
                    !.arg1 = a, !.arg2 = b, !.options = o,
                    !.text1 = a, !.text2 = b]]

CallSingleWith(t, a, b, o, m) ==
  /\ EnterSingle(t, a, b, o, m)
  /\ UNCHANGED <<cache, lock, constructCount, successCount, probe, session>>

CallSingle(t, texts, optionSet, models) ==
  \E a \in texts, b \in texts, o \in optionSet, m \in models :
    CallSingleWith(t, a, b, o, m)

\* "if not text1.strip()": the second text is not looked at
SingleIsEmpty_FirstOnly(text1, text2) == strip(text1) = <<>>

\* "if not text1.strip() or not text2.strip()" with "and" for "or"
SingleIsEmpty_Both(text1, text2) == strip(text1) = <<>> /\ strip(text2) = <<>>

\* line 32: if not text1.strip() or not text2.strip()
SingleIsEmpty(text1, text2) == strip(text1) = <<>> \/ strip(text2) = <<>>

\* lines 32-33
SingleCheckEmpty(t) ==
  /\ call[t].pc = "cs_check"
  /\ IF SingleIsEmpty(call[t].text1, call[t].text2)
       THEN call' = [call EXCEPT
              ![t].pc = "returned",
              ![t].result = <<[score |-> 0, time |-> 0,
                               interpretation |-> EmptyLabel, token_info |-> {}]>>]
       ELSE call' = [call EXCEPT ![t].pc = "cs_preprocess"]
  /\ UNCHANGED <<cache, lock, constructCount, successCount, probe, session>>

\* lines 38-40
SinglePreprocess(t) ==
  LET o == call[t].options IN
  /\ call[t].pc = "cs_preprocess"
  /\ IF Truthy(o)
       THEN call' = [call EXCEPT
              ![t].pc = "lm_lookup",
              ![t].text1 = preprocess_text(call[t].text1, Kw(o, "lowercase"),
                                           Kw(o, "remove_punctuation")),
              ![t].text2 = preprocess_text(call[t].text2, Kw(o, "lowercase"),
                                           Kw(o, "remove_punctuation")),
              ![t].normalized = 2]
       ELSE call' = [call EXCEPT ![t].pc = "lm_lookup"]
  /\ UNCHANGED <<cache, lock, constructCount, successCount, probe, session>>

\* lines 46-59
SingleTokenize(t) ==
  /\ call[t].pc = "cs_tokenize"
  /\ call' = [call EXCEPT ![t].pc = "cs_encode",
                          ![t].tokenized = <<call[t].text1, call[t].text2>>]
  /\ UNCHANGED <<cache, lock, constructCount, successCount, probe, session>>

\* lines 62-73
SingleEncode(t, scores, times) ==
  /\ call[t].pc = "cs_encode"
  /\ \/ \E s \in scores, e \in times :
          call' = [call EXCEPT
            ![t].pc = "returned",
            ![t].encoded = Append(@, <<call[t].text1, call[t].text2>>),
            ![t].result = <<[score |-> s, time |-> e,
                             interpretation |-> get_similarity_interpretation(s),
                             token_info |-> TokenKeys]>>]
     \/ call' = [call EXCEPT
            ![t].pc = "raised",
            ![t].encoded = Append(@, <<call[t].text1, call[t].text2>>),
            ![t].error = "EncodeError"]
  /\ UNCHANGED <<cache, lock, constructCount, successCount, probe, session>>

(***************************************************************************)
(* calculate_batch_similarity                                              *)
(***************************************************************************)
\* text[:100] + '...' if len(text) > 100 else text, cut at 97 characters
Preview_Cut97(text) ==
  IF Len(text) > PreviewLen
    THEN SubSeq(text, 1, PreviewLen - 3) \o Ellipsis
    ELSE text

\* text[:100] + '...' if len(text) > 100 else text
Preview(text) ==
  IF Len(text) > PreviewLen
    THEN SubSeq(text, 1, PreviewLen) \o Ellipsis
    ELSE text

\* the loop entered without load_model having run
BatchEntry_NoLoad == "cb_loop"

\* line 100: the model is loaded before the loop starts
BatchEntry == "lm_lookup"

\* lines 99-100
CallBatch(t, batches, models) ==
  /\ Ready(t)
  /\ \E ps \in batches, m \in models :
       /\ CanRequest(m)
       /\ call' = [call EXCEPT ![t] =
            [Idle EXCEPT !.pc = BatchEntry, !.kind = "batch", !.model = m,
                         !.pairs = ps]]
  /\ UNCHANGED <<cache, lock, constructCount, successCount, probe, session>>

\* 'pair_id': i, without the + 1
ScoredRecord_ZeroBased(k, text1, text2, s, e) ==
  [pair_id |-> k - 1, text1 |-> Preview(text1), text2 |-> Preview(text2),
   similarity_score |-> s, similarity_percentage |-> s * 100,
   interpretation |-> get_similarity_interpretation(s),
   processing_time |-> e]

\* lines 110-118
ScoredRecord(k, text1, text2, s, e) ==
  [pair_id |-> k, text1 |-> Preview(text1), text2 |-> Preview(text2),
   similarity_score |-> s, similarity_percentage |-> s * 100,
   interpretation |-> get_similarity_interpretation(s),
   processing_time |-> e]

\* lines 120-128
EmptyRecord(k, text1, text2) ==
  [pair_id |-> k, text1 |-> Preview(text1), text2 |-> Preview(text2),
   similarity_score |-> 0, similarity_percentage |-> 0,
   interpretation |-> EmptyLabel,
   processing_time |-> 0]

\* "if text1 and text2", without the trimming
BatchIsScorable_NoTrim(text1, text2) == text1 # <<>> /\ text2 # <<>>

\* line 103: if text1.strip() and text2.strip()
BatchIsScorable(text1, text2) == strip(text1) # <<>> /\ strip(text2) # <<>>

\* one iteration of the loop, lines 102-128
BatchPair(t, scores, times) ==
  LET k == call[t].i + 1
      text1 == call[t].pairs[k][1]
      text2 == call[t].pairs[k][2]
  IN
  /\ call[t].pc = "cb_loop"
  /\ call[t].i < Len(call[t].pairs)
  /\ IF BatchIsScorable(text1, text2)
       THEN \/ \E s \in scores, e \in times :
                 call' = [call EXCEPT
                   ![t].i = k,
                   ![t].encoded = Append(@, <<text1, text2>>),
                   ![t].results = Append(@, ScoredRecord(k, text1, text2, s, e))]
            \/ call' = [call EXCEPT
                   ![t].pc = "raised",
                   ![t].encoded = Append(@, <<text1, text2>>),
                   ![t].error = "EncodeError"]
       ELSE call' = [call EXCEPT
                   ![t].i = k,
                   ![t].results = Append(@, EmptyRecord(k, text1, text2))]
  /\ UNCHANGED <<cache, lock, constructCount, successCount, probe, session>>

\* line 130
BatchReturn(t) ==
  /\ call[t].pc = "cb_loop"
  /\ call[t].i = Len(call[t].pairs)
  /\ call' = [call EXCEPT ![t].pc = "returned"]
  /\ UNCHANGED <<cache, lock, constructCount, successCount, probe, session>>

\* the caller has taken the value or the exception; the thread is free again
Finish(t) ==
  /\ call[t].pc \in {"returned", "raised"}
  /\ call' = [call EXCEPT ![t] = Idle]
  /\ UNCHANGED <<cache, lock, constructCount, successCount, probe, session>>

(***************************************************************************)
(* One script run at a time, over the full input sets.                     *)
(***************************************************************************)
Next ==
  \E t \in {1} :
    \/ CallSingle(t, Texts, AllOptions, ModelIds)
    \/ SingleCheckEmpty(t)
    \/ SinglePreprocess(t)
    \/ LoadLookup(t)
    \/ LoadAcquire(t)
    \/ LoadRecheck(t)
    \/ LoadConstruct(t)
    \/ SingleTokenize(t)
    \/ SingleEncode(t, SampleScores, ElapsedTimes)
    \/ CallBatch(t, SeqsUpTo(BatchPairs, MaxPairs), ModelIds)
    \/ BatchPair(t, SampleScores, ElapsedTimes)
    \/ BatchReturn(t)
    \/ Finish(t)

Spec == Init /\ [][Next]_vars

(***************************************************************************)
(* Concurrent script runs sharing the model cache, over one non-blank      *)
(* pair.                                                                   *)
(***************************************************************************)
ConcPair == <<<<"a">>, <<"a">>>>

NextConc ==
  \E t \in Threads :
    \/ CallSingle(t, {<<"a">>}, {NoOptions}, ModelIds)
    \/ SingleCheckEmpty(t)
    \/ SinglePreprocess(t)
    \/ LoadLookup(t)
    \/ LoadAcquire(t)
    \/ LoadRecheck(t)
    \/ LoadConstruct(t)
    \/ SingleTokenize(t)
    \/ SingleEncode(t, {1000}, {1})
    \/ CallBatch(t, {<<ConcPair>>}, ModelIds)
    \/ BatchPair(t, {1000}, {1})
    \/ BatchReturn(t)
    \/ Finish(t)

SpecConc == Init /\ [][NextConc]_vars

(***************************************************************************)
(* preprocess_text applied to every text of at most MaxLen characters,     *)
(* under each combination of its two options.                              *)
(***************************************************************************)
InitNormalize ==
  /\ cache = {}
  /\ lock = 0
  /\ constructCount = [m \in ModelIds |-> 0]
  /\ successCount = [m \in ModelIds |-> 0]
  /\ call = [t \in Threads |-> Idle]
  /\ SessionInit
  /\ probe \in {[fn |-> "preprocess_text", text |-> x, lowercase |-> l,
                 remove_punctuation |-> r, done |-> FALSE, out |-> <<>>] :
                  x \in TextsUpTo(MaxLen), l \in BOOLEAN, r \in BOOLEAN}

ApplyPreprocess ==
  /\ probe.fn = "preprocess_text"
  /\ ~probe.done
  /\ probe' = [probe EXCEPT
       !.done = TRUE,
       !.out = preprocess_text(probe.text, probe.lowercase, probe.remove_punctuation)]
  /\ UNCHANGED <<cache, lock, constructCount, successCount, call, session>>

NextNormalize == ApplyPreprocess

SpecNormalize == InitNormalize /\ [][NextNormalize]_vars

(***************************************************************************)
(* get_similarity_interpretation and get_similarity_color applied to every *)
(* score, in thousandths, of [-1, 1].                                      *)
(***************************************************************************)
InitClassify ==
  /\ cache = {}
  /\ lock = 0
  /\ constructCount = [m \in ModelIds |-> 0]
  /\ successCount = [m \in ModelIds |-> 0]
  /\ call = [t \in Threads |-> Idle]
  /\ SessionInit
  /\ probe \in {[fn |-> "classify", score |-> s,
                 interpretation |-> "", color |-> ""] : s \in Scores}

ApplyInterpretation ==
  /\ probe.fn = "classify"
  /\ probe.interpretation = ""
  /\ probe' = [probe EXCEPT !.interpretation = get_similarity_interpretation(probe.score)]
  /\ UNCHANGED <<cache, lock, constructCount, successCount, call, session>>

ApplyColor ==
  /\ probe.fn = "classify"
  /\ probe.color = ""
  /\ probe' = [probe EXCEPT !.color = get_similarity_color(probe.score)]
  /\ UNCHANGED <<cache, lock, constructCount, successCount, call, session>>

NextClassify == ApplyInterpretation \/ ApplyColor

SpecClassify == InitClassify /\ [][NextClassify]_vars

(***************************************************************************)
(* The encoder as a function.  model.encode gives every text a vector that *)
(* depends on the text alone, never the zero vector; cosine_similarity is  *)
(* the dot product over the product of the two magnitudes.  The vector     *)
(* here counts the characters of each class after a constant component.    *)
(***************************************************************************)
Count(text, S) == Cardinality({j \in 1..Len(text) : text[j] \in S})

Embed(m, text) ==
  <<1, Count(text, Upper), Count(text, LowerCase),
       Count(text, AsciiPunctuation \cup OtherPunctuation)>>

RECURSIVE Dot(_, _)
Dot(u, v) == IF u = <<>> THEN 0 ELSE Head(u) * Head(v) + Dot(Tail(u), Tail(v))

\* the square root of a number of at most 1000000, rounded down
ISqrt(n) == CHOOSE r \in 0..1000 : r * r <= n /\ (r + 1) * (r + 1) > n

\* float(cosine_similarity([u], [v])[0][0]), in thousandths
cosine_similarity(u, v) ==
  LET d == Dot(u, v)
      r == ISqrt((1000000 * d * d) \div (Dot(u, u) * Dot(v, v)))
  IN IF d >= 0 THEN r ELSE 0 - r

EncodeScore(m, text1, text2) == cosine_similarity(Embed(m, text1), Embed(m, text2))

(***************************************************************************)
(* Two calls on one pair, one after the other: calculate_similarity(a, b)  *)
(* by thread 1, then by thread 2 either calculate_similarity(b, a) or      *)
(* calculate_batch_similarity([(a, b)]), with the same model.              *)
(***************************************************************************)
InitCompare ==
  /\ cache = {}
  /\ lock = 0
  /\ constructCount = [m \in ModelIds |-> 0]
  /\ successCount = [m \in ModelIds |-> 0]
  /\ call = [t \in Threads |-> Idle]
  /\ SessionInit
  /\ probe \in {[fn |-> "compare", a |-> a, b |-> b, options |-> o, model |-> m] :
                  a \in Texts, b \in Texts, o \in AllOptions, m \in ModelIds}

FirstDone == call[1].pc \in {"returned", "raised"}

NextCompare ==
  \/ CallSingleWith(1, probe.a, probe.b, probe.options, probe.model)
  \/ FirstDone /\ CallSingleWith(2, probe.b, probe.a, probe.options, probe.model)
  \/ FirstDone /\ CallBatch(2, {<<<<probe.a, probe.b>>>>}, {probe.model})
  \/ \E t \in {1, 2} :
       \/ SingleCheckEmpty(t)
       \/ SinglePreprocess(t)
       \/ LoadLookup(t)
       \/ LoadAcquire(t)
       \/ LoadRecheck(t)
       \/ LoadConstruct(t)
       \/ SingleTokenize(t)
       \/ SingleEncode(t, {EncodeScore(call[t].model, call[t].text1, call[t].text2)},
                       ElapsedTimes)
       \/ BatchPair(t, {EncodeScore(call[t].model, call[t].pairs[call[t].i + 1][1],
                                    call[t].pairs[call[t].i + 1][2])},
                    ElapsedTimes)
       \/ BatchReturn(t)

SpecCompare == InitCompare /\ [][NextCompare]_vars

(***************************************************************************)
(* The comparison history of a session (helpers.py, app.py).               *)
(***************************************************************************)
MaxHistory == 5
HistoryPreviewLen == 50
DefaultMinLength == 1

\* bounds of the explored runs
MaxSaves == 6
MaxClock == 1
MaxRuns == 2

\* text[:50] + '...' if len(text) > 50 else text
HistoryPreview(text) ==
  IF Len(text) > HistoryPreviewLen
    THEN SubSeq(text, 1, HistoryPreviewLen) \o Ellipsis
    ELSE text

\* the dictionary save_comparison_history builds; the timestamp is the
\* second the clock shows
Comparison(text1, text2, similarity_score, interpretation, processing_time, now) ==
  [timestamp |-> now,
   text1_preview |-> HistoryPreview(text1),
   text2_preview |-> HistoryPreview(text2),
   similarity_score |-> similarity_score,
   similarity_percentage |-> similarity_score * 100,
   interpretation |-> interpretation,
   processing_time |-> processing_time]

\* a wrong truncation, h[-5:]: keeps the last five of the list
KeepRecent_Last(h) ==
  IF Len(h) > MaxHistory THEN SubSeq(h, Len(h) - MaxHistory + 1, Len(h)) ELSE h

\* if len(h) > 5: h = h[:5]
KeepRecent(h) ==
  IF Len(h) > MaxHistory THEN SubSeq(h, 1, MaxHistory) ELSE h

\* h.insert(0, comparison), then the truncation
save_comparison_history(h, text1, text2, similarity_score, interpretation, processing_time, now) ==
  KeepRecent(<<Comparison(text1, text2, similarity_score, interpretation,
                          processing_time, now)>> \o h)

\* a wrong gate: the length of the text as typed
validate_text_input_NoTrim(text, min_length) == Len(text) >= min_length

\* len(text.strip()) >= min_length
validate_text_input(text, min_length) == Len(strip(text)) >= min_length

HistoryPairs == {<<<<"a">>, <<"A">>>>, <<Rep("a", HistoryPreviewLen + 1), <<"A">>>>}
HistoryScores == {800}

\* one call of save_comparison_history in session t
SaveComparison(t, pairs, scores, times) ==
  /\ Len(saved[t]) < MaxSaves
  /\ \E p \in pairs, s \in scores, e \in times :
       LET i == get_similarity_interpretation(s) IN
       /\ history' = [history EXCEPT ![t] =
            save_comparison_history(@, p[1], p[2], s, i, e, clock)]
       /\ saved' = [saved EXCEPT ![t] =
            <<Comparison(p[1], p[2], s, i, e, clock)>> \o @]
  /\ UNCHANGED <<cache, lock, constructCount, successCount, call, probe, ui, clock>>

\* the Clear History button, drawn only when the history is not empty
ClearHistory(t) ==
  /\ ui[t].stage # "analyzing"
  /\ history[t] # <<>>
  /\ history' = [history EXCEPT ![t] = <<>>]
  /\ saved' = [saved EXCEPT ![t] = <<>>]
  /\ ui' = [ui EXCEPT ![t] = NoRun]
  /\ UNCHANGED <<cache, lock, constructCount, successCount, call, probe, clock>>

\* a second passes
Tick ==
  /\ clock < MaxClock
  /\ clock' = clock + 1
  /\ UNCHANGED <<cache, lock, constructCount, successCount, call, probe,
                 history, saved, ui>>

NextHistory ==
  \/ SaveComparison(1, HistoryPairs, HistoryScores, {1})
  \/ ClearHistory(1)
  \/ Tick

SpecHistory == Init /\ [][NextHistory]_vars

(***************************************************************************)
(* The single comparison tab (app.py, single_comparison_interface).        *)
(***************************************************************************)
\* the dictionary the sidebar builds: both keys, one value per checkbox
UIOptions == {[present |-> TRUE, kw |-> d] : d \in [OptionKeys -> BOOLEAN]}

\* the Analyze button: the gate, then either the error or the call
AnalyzeClick(t, texts, optionSet, models) ==
  /\ ui[t].stage = "idle"
  /\ Len(saved[t]) < MaxRuns
  /\ \E a \in texts, b \in texts, o \in optionSet, m \in models :
       IF ~validate_text_input(a, DefaultMinLength)
            \/ ~validate_text_input(b, DefaultMinLength)
         THEN /\ ui' = [ui EXCEPT ![t] =
                   [stage |-> "error", text1 |-> a, text2 |-> b, report |-> <<>>]]
              /\ call' = call
         ELSE /\ EnterSingle(t, a, b, o, m)
              /\ ui' = [ui EXCEPT ![t] =
                   [stage |-> "analyzing", text1 |-> a, text2 |-> b, report |-> <<>>]]
  /\ UNCHANGED <<cache, lock, constructCount, successCount, probe,
                 history, saved, clock>>

\* calculate_similarity returned: save to the history, display, report
AnalyzeShow(t) ==
  /\ ui[t].stage = "analyzing"
  /\ call[t].pc = "returned"
  /\ LET r == call[t].result[1] IN
     /\ history' = [history EXCEPT ![t] =
          save_comparison_history(@, ui[t].text1, ui[t].text2, r.score,
                                  r.interpretation, r.time, clock)]
     /\ saved' = [saved EXCEPT ![t] =
          <<Comparison(ui[t].text1, ui[t].text2, r.score, r.interpretation,
                       r.time, clock)>> \o @]
     /\ ui' = [ui EXCEPT ![t].stage = "results",
                         ![t].report = <<[text1 |-> ui[t].text1,
                                          text2 |-> ui[t].text2,
                                          similarity_score |-> r.score,
                                          interpretation |-> r.interpretation,
                                          processing_time |-> r.time,
                                          model_name |-> call[t].model]>>]
  /\ call' = [call EXCEPT ![t] = Idle]
  /\ UNCHANGED <<cache, lock, constructCount, successCount, probe, clock>>

\* calculate_similarity raised: the script run ends with the exception
AnalyzeRaise(t) ==
  /\ ui[t].stage = "analyzing"
  /\ call[t].pc = "raised"
  /\ ui' = [ui EXCEPT ![t].stage = "exception"]
  /\ call' = [call EXCEPT ![t] = Idle]
  /\ UNCHANGED <<cache, lock, constructCount, successCount, probe,
                 history, saved, clock>>

\* the next script run of the session starts with nothing shown
Rerun(t) ==
  /\ ui[t].stage \in {"error", "results", "exception"}
  /\ ui' = [ui EXCEPT ![t] = NoRun]
  /\ UNCHANGED <<cache, lock, constructCount, successCount, call, probe,
                 history, saved, clock>>

NextUI ==
  \E t \in {1} :
    \/ AnalyzeClick(t, Texts, UIOptions, KnownModels)
    \/ SingleCheckEmpty(t)
    \/ SinglePreprocess(t)
    \/ LoadLookup(t)
    \/ LoadAcquire(t)
    \/ LoadRecheck(t)
    \/ LoadConstruct(t)
    \/ SingleTokenize(t)
    \/ SingleEncode(t, {EncodeScore(call[t].model, call[t].text1, call[t].text2)}, {1})
    \/ AnalyzeShow(t)
    \/ AnalyzeRaise(t)
    \/ Rerun(t)
    \/ ClearHistory(t)

SpecUI == Init /\ [][NextUI]_vars

(***************************************************************************)
(* Properties.                                                             *)
(***************************************************************************)
Blank(text) == \A j \in 1..Len(text) : text[j] \in Whitespace
Batches == {t \in Threads : call[t].kind = "batch"}
Singles == {t \in Threads : call[t].kind = "single"}

\* C1: a failure of the embedding call for one pair of a batch never makes
\* the batch call raise: a batch whose model was loaded always gets past
\* every pair, so it never ends with an exception of the encode call.
C1_BatchIsolation ==
  \A t \in Batches : ~(call[t].pc = "raised" /\ call[t].error = "EncodeError")

\* C2: whenever calculate_batch_similarity returns, it returns one record per
\* input pair, in input order, and the k-th record has pair_id = k.
C2_BatchShape ==
  \A t \in Batches :
    call[t].pc = "returned" =>
      /\ Len(call[t].results) = Len(call[t].pairs)
      /\ \A k \in 1..Len(call[t].results) :
           /\ call[t].results[k].pair_id = k
           /\ \A j \in 1..Min({PreviewLen, Len(call[t].pairs[k][1])}) :
                call[t].results[k].text1[j] = call[t].pairs[k][1][j]
           /\ \A j \in 1..Min({PreviewLen, Len(call[t].pairs[k][2])}) :
                call[t].results[k].text2[j] = call[t].pairs[k][2][j]
      /\ \A k \in 1..Len(call[t].results), l \in 1..Len(call[t].results) :
           call[t].results[k].pair_id = call[t].results[l].pair_id => k = l

\* a batch of two different pairs has returned
C2_Witness ==
  \E t \in Batches :
    /\ call[t].pc = "returned"
    /\ Len(call[t].pairs) >= 2
    /\ call[t].pairs[1] # call[t].pairs[2]
    /\ call[t].results[2].pair_id = 2

C4_UnknownModelAlwaysRaises ==
  \A t \in Threads :
    (call[t].kind # "none" /\ call[t].model \notin KnownModels) =>
      /\ call[t].pc # "returned"
      /\ call[t].tokenized = <<>> /\ call[t].encoded = <<>>
      /\ call[t].results = <<>>

\* C4, amended: with an unresolvable model identifier, every batch call and
\* every single-pair call whose two texts are non-blank ends with the load
\* error raised, before any tokenizer or embedding call and before any pair is
\* processed; a single-pair call with a blank text returns the empty-text
\* result as a value.
C4_UnknownModelRaisesUnlessBlank ==
  \A t \in Threads :
    (call[t].kind # "none" /\ call[t].model \notin KnownModels) =>
      /\ call[t].tokenized = <<>> /\ call[t].encoded = <<>>
      /\ call[t].results = <<>> /\ call[t].i = 0
      /\ call[t].pc \notin {"cs_tokenize", "cs_encode", "cb_loop"}
      /\ call[t].pc = "raised" => call[t].error = "ModelLoadError"
      /\ call[t].pc = "returned" =>
           /\ call[t].kind = "single"
           /\ Blank(call[t].arg1) \/ Blank(call[t].arg2)
           /\ call[t].result[1].interpretation = EmptyLabel

\* a batch of two pairs with an unresolvable identifier has raised
C4_Witness ==
  \E t \in Batches :
    /\ call[t].model \notin KnownModels
    /\ Len(call[t].pairs) >= 2
    /\ call[t].pc = "raised"
    /\ call[t].error = "ModelLoadError"

\* C5: a calculate_similarity call with a text that is blank after trimming
\* returns (0.0, 0.0, "Empty text detected", {}) as a value, and runs no
\* preprocessing, model load, tokenizer or embedding call.
C5_SingleEmptyFastPath ==
  \A t \in Singles :
    (Blank(call[t].arg1) \/ Blank(call[t].arg2)) =>
      /\ call[t].pc \in {"cs_check", "returned"}
      /\ call[t].error = "none"
      /\ call[t].normalized = 0
      /\ call[t].text1 = call[t].arg1 /\ call[t].text2 = call[t].arg2
      /\ call[t].tokenized = <<>> /\ call[t].encoded = <<>>
      /\ call[t].pc = "returned" =>
           call[t].result = <<[score |-> 0, time |-> 0,
                               interpretation |-> "Empty text detected",
                               token_info |-> {}]>>

\* a call with options set, a non-blank first text and a whitespace-only
\* second text has returned the empty-text result
C5_Witness ==
  \E t \in Singles :
    /\ call[t].pc = "returned"
    /\ call[t].arg1 = <<" ", "A", "!">>
    /\ call[t].arg2 = <<" ">>
    /\ Truthy(call[t].options)
    /\ call[t].result[1].interpretation = "Empty text detected"

\* the pairs among the first n of ps whose two texts are non-blank
RECURSIVE NonBlankPairs(_, _)
NonBlankPairs(ps, n) ==
  IF n = 0 THEN <<>>
  ELSE IF ~Blank(ps[n][1]) /\ ~Blank(ps[n][2])
         THEN Append(NonBlankPairs(ps, n - 1), ps[n])
         ELSE NonBlankPairs(ps, n - 1)

\* C6: a pair of a batch with a text that is blank after trimming gets a
\* record with score 0.0, percentage 0.0, "Empty text detected" and processing
\* time 0.0, no embedding call is made for it, and the batch goes on: the
\* loop never stops at such a pair, and only non-blank pairs reach the encoder.
C6_BatchEmptyPair ==
  \A t \in Batches :
    LET c == call[t] IN
    /\ \A k \in 1..Len(c.results) :
         (Blank(c.pairs[k][1]) \/ Blank(c.pairs[k][2])) =>
           /\ c.results[k].similarity_score = 0
           /\ c.results[k].similarity_percentage = 0
           /\ c.results[k].interpretation = "Empty text detected"
           /\ c.results[k].processing_time = 0
           /\ c.results[k].pair_id = k
    /\ Len(c.results) = c.i
    /\ c.pc = "raised" /\ c.error = "EncodeError" =>
         /\ c.encoded = NonBlankPairs(c.pairs, c.i + 1)
         /\ ~Blank(c.pairs[c.i + 1][1]) /\ ~Blank(c.pairs[c.i + 1][2])
    /\ c.pc \in {"cb_loop", "returned"} => c.encoded = NonBlankPairs(c.pairs, c.i)
    /\ (c.pc = "cb_loop" /\ c.i < Len(c.pairs)) => ENABLED BatchPair(t, SampleScores, ElapsedTimes)

\* a batch whose first pair has a whitespace-only text and whose second pair
\* was scored has returned
C6_Witness ==
  \E t \in Batches :
    /\ call[t].pc = "returned"
    /\ Len(call[t].pairs) >= 2
    /\ call[t].pairs[1] = <<<<"a">>, <<" ">>>>
    /\ call[t].results[1].interpretation = "Empty text detected"
    /\ call[t].encoded = <<call[t].pairs[2]>>
    /\ call[t].results[2].similarity_score = 1000

\* the similarity_thresholds and colors of DEFAULT_CONFIG
CategoryOf(score) ==
  CASE score > 800 -> "Very Similar"
    [] score > 600 /\ score <= 800 -> "Moderately Similar"
    [] score > 300 /\ score <= 600 -> "Somewhat Similar"
    [] OTHER -> "Not Similar"
ColorOfCategory ==
  [c \in {"Very Similar", "Moderately Similar", "Somewhat Similar", "Not Similar"} |->
     CASE c = "Very Similar" -> "#28a745"
       [] c = "Moderately Similar" -> "#ffc107"
       [] c = "Somewhat Similar" -> "#17a2b8"
       [] c = "Not Similar" -> "#dc3545"]

\* C7: the category is Very Similar iff score > 0.8, Moderately Similar iff
\* 0.6 < score <= 0.8, Somewhat Similar iff 0.3 < score <= 0.6, Not Similar
\* otherwise, and the color is always the color of that category.
C7_ClassifierTable ==
  probe.fn = "classify" =>
    /\ probe.interpretation # "" =>
         /\ probe.interpretation = CategoryOf(probe.score)
         /\ probe.interpretation = "Very Similar" <=> probe.score > 800
         /\ probe.score \in {300, 600, 800} =>
              probe.interpretation = CategoryOf(probe.score - 1)
    /\ probe.color # "" => probe.color = ColorOfCategory[CategoryOf(probe.score)]
    /\ (probe.interpretation # "" /\ probe.color # "") =>
         probe.color = ColorOfCategory[probe.interpretation]

\* the boundary score 0.8 has been classified: the lower category, its color
C7_Witness ==
  /\ probe.fn = "classify"
  /\ probe.score = 800
  /\ probe.interpretation = "Moderately Similar"
  /\ probe.color = "#ffc107"

\* C8: preprocess_text is lowercase (if set), then deletion of the ASCII
\* punctuation (if set), then the trim, whatever the options: with no option
\* the result is t.strip(), and a blank text gives the empty string.
C8_Normalizer ==
  (probe.fn = "preprocess_text" /\ probe.done) =>
    LET t == probe.text
        out == probe.out
    IN
    /\ out = CASE probe.lowercase /\ probe.remove_punctuation -> strip(translate(lower(t)))
               [] probe.lowercase /\ ~probe.remove_punctuation -> strip(lower(t))
               [] ~probe.lowercase /\ probe.remove_punctuation -> strip(translate(t))
               [] OTHER -> strip(t)
    /\ out # <<>> => (out[1] \notin Whitespace /\ out[Len(out)] \notin Whitespace)
    /\ probe.lowercase => \A j \in 1..Len(out) : out[j] \notin Upper
    /\ probe.remove_punctuation => \A j \in 1..Len(out) : out[j] \notin AsciiPunctuation
    /\ Blank(t) => out = <<>>
    /\ Len(out) <= Len(t)

\* both options set on a text whose punctuation hides a leading space
C8_Witness ==
  /\ probe.fn = "preprocess_text"
  /\ probe.done
  /\ probe.lowercase /\ probe.remove_punctuation
  /\ probe.text = <<"!", " ", "A">>
  /\ probe.out = <<"a">>

\* what the Text Normalizer makes of a text under an options record
Normalize(text, o) ==
  strip(LET t1 == IF Kw(o, "lowercase") THEN lower(text) ELSE text
        IN IF Kw(o, "remove_punctuation") THEN translate(t1) ELSE t1)

\* C9: the two texts calculate_similarity gives to the tokenizer and to the
\* embedding call are the normalized texts for every options record, the
\* empty one included, and the raw texts only when options are absent.
C9_NormalizedInputs ==
  \A t \in Singles :
    LET c == call[t]
        expected == IF c.options.present
                      THEN <<Normalize(c.arg1, c.options), Normalize(c.arg2, c.options)>>
                      ELSE <<c.arg1, c.arg2>>
    IN
    /\ c.tokenized # <<>> => c.tokenized = expected
    /\ c.encoded # <<>> => c.encoded = <<expected>>

\* C10 as stated: each preview of a batch record has at most 100 characters,
\* is the input when the input has at most 100, and otherwise is a prefix of
\* the input followed by an ellipsis.
C10_PreviewAtMost100 ==
  \A t \in Batches : \A k \in 1..Len(call[t].results) : \A f \in {1, 2} :
    LET x == call[t].pairs[k][f]
        p == IF f = 1 THEN call[t].results[k].text1 ELSE call[t].results[k].text2
    IN
    /\ Len(p) <= 100
    /\ Len(x) <= 100 => p = x
    /\ Len(x) > 100 =>
         /\ SubSeq(p, Len(p) - 2, Len(p)) = <<".", ".", ".">>
         /\ SubSeq(p, 1, Len(p) - 3) = SubSeq(x, 1, Len(p) - 3)

\* C10, amended: each preview is the input when the input has at most 100
\* characters, and otherwise the first 100 characters of the input followed
\* by "...": 103 characters, never more.
C10_PreviewFirst100PlusEllipsis ==
  \A t \in Batches : \A k \in 1..Len(call[t].results) : \A f \in {1, 2} :
    LET x == call[t].pairs[k][f]
        p == IF f = 1 THEN call[t].results[k].text1 ELSE call[t].results[k].text2
    IN
    /\ Len(p) <= 103
    /\ Len(x) <= 100 => p = x
    /\ Len(x) > 100 =>
         /\ Len(p) = 103
         /\ SubSeq(p, 101, 103) = <<".", ".", ".">>
         /\ SubSeq(p, 1, 100) = SubSeq(x, 1, 100)

\* a record holds the preview of a 101-character text and of a 100-character one
C10_Witness ==
  \E t \in Batches : \E k \in 1..Len(call[t].results) :
    /\ Len(call[t].pairs[k][1]) = 101
    /\ Len(call[t].results[k].text1) = 103
    /\ Len(call[t].pairs[k][2]) = 100
    /\ call[t].results[k].text2 = call[t].pairs[k][2]

\* C11: calculate_similarity(a, b, ...) and calculate_similarity(b, a, ...),
\* with the same model and options, return the same score and the same
\* interpretation, also when one of the texts is blank.
C11_Symmetry ==
  (/\ probe.fn = "compare"
   /\ call[1].pc = "returned"
   /\ call[2].kind = "single" /\ call[2].pc = "returned") =>
     /\ call[2].arg1 = call[1].arg2 /\ call[2].arg2 = call[1].arg1
     /\ call[2].result[1].score = call[1].result[1].score
     /\ call[2].result[1].interpretation = call[1].result[1].interpretation
     /\ (Blank(probe.a) \/ Blank(probe.b)) =>
          /\ call[1].result[1].score = 0 /\ call[2].result[1].score = 0
          /\ call[1].result[1].interpretation = "Empty text detected"

\* both orders of two different non-blank texts have been scored
C11_Witness ==
  /\ probe.fn = "compare"
  /\ probe.a = <<" ", "A", "!">> /\ probe.b = <<"!">>
  /\ call[1].pc = "returned" /\ call[1].arg1 = probe.a
  /\ call[2].kind = "single" /\ call[2].pc = "returned" /\ call[2].arg1 = probe.b
  /\ call[1].encoded # <<>> /\ call[2].encoded # <<>>
  /\ call[1].result[1].score \in 1..999

\* C14: with no preprocessing options, calculate_batch_similarity([(a, b)], m)[0]
\* has the score and the interpretation of calculate_similarity(a, b, m), for
\* non-blank pairs and for pairs with a blank text (0.0 and the same
\* empty-text label), and its similarity_percentage is the score times 100.
C14_SingleBatchAgreement ==
  (/\ probe.fn = "compare"
   /\ ~probe.options.present
   /\ call[1].pc = "returned"
   /\ call[2].kind = "batch" /\ call[2].pc = "returned") =>
     /\ call[2].pairs = <<<<call[1].arg1, call[1].arg2>>>>
     /\ Len(call[2].results) = 1
     /\ call[2].results[1].similarity_score = call[1].result[1].score
     /\ call[2].results[1].interpretation = call[1].result[1].interpretation
     /\ call[2].results[1].similarity_percentage = call[1].result[1].score * 100
     /\ (Blank(probe.a) \/ Blank(probe.b)) =>
          /\ call[2].results[1].similarity_score = 0
          /\ call[2].results[1].interpretation = "Empty text detected"
     /\ (~Blank(probe.a) /\ ~Blank(probe.b)) =>
          /\ call[1].encoded = call[2].encoded
          /\ call[2].results[1].interpretation # "Empty text detected"

\* a pair with a whitespace-only text has gone through both pipelines
C14_Witness ==
  /\ probe.fn = "compare"
  /\ ~probe.options.present
  /\ probe.a = <<"!">> /\ probe.b = <<" ">>
  /\ call[1].pc = "returned"
  /\ call[2].kind = "batch" /\ call[2].pc = "returned"
  /\ call[2].results[1].interpretation = "Empty text detected"

\* C15: whenever calculate_similarity calls the tokenizer or the embedding
\* model, both texts it passes are non-empty after trimming.
C15_NonEmptyEmbeddingInput ==
  \A t \in Singles :
    /\ \A j \in 1..Len(call[t].tokenized) : ~Blank(call[t].tokenized[j])
    /\ \A j \in 1..Len(call[t].encoded) :
         ~Blank(call[t].encoded[j][1]) /\ ~Blank(call[t].encoded[j][2])

\* C12: when the Analyze action fires and either text is blank after
\* trimming, the interface shows the error and computes nothing:
\* calculate_similarity is not called, the comparison history keeps its
\* entries and no report is produced; the error is shown for no other input,
\* and no history entry ever carries the empty-text interpretation.
C12_UIGate ==
  [][\A t \in Threads :
       /\ (/\ ui[t].stage = "idle"
           /\ ui'[t].stage # "idle"
           /\ (Blank(ui'[t].text1) \/ Blank(ui'[t].text2)))
          => /\ ui'[t].stage = "error"
             /\ ui'[t].report = <<>>
             /\ call' = call
             /\ call[t] = Idle
             /\ history' = history
       /\ ui'[t].stage = "error"
          => /\ Blank(ui'[t].text1) \/ Blank(ui'[t].text2)
             /\ call'[t] = Idle
       /\ \A j \in 1..Len(history'[t]) :
            history'[t][j].interpretation # "Empty text detected"]_vars

\* C12 witness: the error is shown for a text of one space beside a text
\* with content, in a session whose history already holds a comparison.
C12_Witness ==
  /\ ui[1].stage = "error"
  /\ ui[1].text1 = <<" ", "A", "!">>
  /\ ui[1].text2 = <<" ">>
  /\ Len(history[1]) = 1
  /\ call[1] = Idle

\* C13: after any sequence of saves and Clear History actions the history
\* holds at most 5 entries, newest first: exactly the most recent min(n, 5)
\* of the n comparisons saved since the last clear, so a save puts its
\* entry at index 0 and only the oldest entry leaves a full list.
C13_HistoryBound ==
  \A t \in Threads :
    /\ Len(history[t]) <= 5
    /\ Len(history[t]) = Min({Len(saved[t]), 5})
    /\ history[t] = SubSeq(saved[t], 1, Min({Len(saved[t]), 5}))
    /\ \A j \in 1..(Len(history[t]) - 1) :
         history[t][j].timestamp >= history[t][j + 1].timestamp

\* C13 witness: six comparisons saved since the last clear, the newest a
\* long text saved a second after the oldest, and the history holds five.
C13_Witness ==
  /\ Len(saved[1]) = 6
  /\ Len(history[1]) = 5
  /\ history[1][1].text1_preview = Rep("a", 50) \o Ellipsis
  /\ history[1][1].timestamp > saved[1][6].timestamp
  /\ saved[1][6].text1_preview = <<"a">>

====
